---------------------------- MODULE Spec2Model ----------------------------
(***************************************************************************)
(* Model of the Blauberg UDP parameter protocol client                     *)
(* (custom_components/blaueberg/blauberg_protocol.py).                     *)
(*                                                                         *)
(* Bytes are integers 0..255, byte strings are sequences of bytes.  The    *)
(* code indexes byte strings from 0; the model keeps the code's 0-based    *)
(* index and reads raw[index + 1].  An Optional[int] is a sequence: <<>>   *)
(* is None, <<v>> is the integer v.                                        *)
(*                                                                         *)
(* Section / Packet / ExpandingSection live in packet.py; their operators *)
(* below follow sections 3, 4.1 and 9 of the specification.                *)
(***************************************************************************)
EXTENDS Integers, Sequences, FiniteSets, TLC

VARIABLES
    raw_data,   \* _decode_data: the bytes being decoded
    index,      \* _decode_data: read index (0-based)
    lead_byte,  \* _decode_data: bytes() or a one-byte string
    values,     \* _decode_data: the result dict, id -> Optional[int]
    dpc,        \* _decode_data: "idle" | "loop" | "returned" | "raised"
    parameters, \* _construct_command_block: the mapping, as its (id, value) items
                \* in insertion order
    data_packet,\* _construct_command_block: the bytes of the returned Packet
    bpc,        \* _construct_command_block: "idle" | "call" | "built" | "decoded"
    host,       \* self._host
    port,       \* self._port
    timeout,    \* self._timeout
    device_id,  \* self._device_id, as its utf-8 bytes
    password,   \* self._password, as its utf-8 bytes
    id_size,    \* self._id_size.value
    pwd_size,   \* self._pwd_size.value
    CHECKSUM,   \* the value of the class-level CHECKSUM section
    pc,         \* where the client is: "new" (before __init__) | "failed" |
                \* "idle" | "connect" | "send" | "recv" | "close" | "process" |
                \* "done"
    op,         \* the public call and its arguments
    command,    \* the bytes of the command frame of this call
    sock,       \* the socket of this call: "none" | "connected" | "closed"
    nsent,      \* datagrams sent by this call
    raw_response, \* what _communicate returned
    timed_out,  \* the receive of this call timed out
    warned,     \* this call logged a checksum mismatch
    result,     \* the value the call returned
    outcome,    \* "none" | "running" | "returned" | "raised"
    events,     \* the socket operations of this call, in order
    threads     \* two clients in two threads, each inside _communicate_block
                \* (specification SpecConcurrent)

decodeVars == <<raw_data, index, lead_byte, values, dpc>>

blockVars == <<parameters, data_packet, bpc>>

configVars == <<host, port, timeout, device_id, password, id_size, pwd_size>>

callVars == <<CHECKSUM, pc, op, command, sock, nsent, raw_response, timed_out,
              warned, result, outcome, events>>

clientVars == <<host, port, timeout, device_id, password, id_size, pwd_size,
                CHECKSUM, pc, op, command, sock, nsent, raw_response, timed_out,
                warned, result, outcome, events, threads>>

vars == <<raw_data, index, lead_byte, values, dpc, parameters, data_packet, bpc,
          host, port, timeout, device_id, password, id_size, pwd_size, CHECKSUM,
          pc, op, command, sock, nsent, raw_response, timed_out, warned, result,
          outcome, events, threads>>

-----------------------------------------------------------------------------
(* Bounds *)

\* longest enumerated data block / response data block
MaxLen == 5

\* the byte values data blocks are drawn from: the three markers, small
\* lengths / tails / values
ByteSamples == {0, 1, 2, 253, 254, 255}

-----------------------------------------------------------------------------
(* Python values *)

None == <<>>
Some(v) == <<v>>

\* the empty dict
EmptyDict == [k \in {} |-> None]

\* d[k] = v on a dict
DictSet(d, k, v) == (k :> v) @@ d

\* raw[i] with the code's 0-based index
At(raw, i) == raw[i + 1]

\* raw[a:b]: Python slicing clips to the end of the string
Slice(raw, a, b) ==
    LET hi == IF b > Len(raw) THEN Len(raw) ELSE b
    IN  IF a >= hi THEN <<>> ELSE [k \in 1..(hi - a) |-> raw[a + k]]

-----------------------------------------------------------------------------
(* Section (packet.py) *)

\* Section.set_bytes(raw).value: the big-endian integer of the bytes
RECURSIVE FromBytes(_)
FromBytes(bs) ==
    IF bs = <<>> THEN 0
    ELSE FromBytes(SubSeq(bs, 1, Len(bs) - 1)) * 256 + bs[Len(bs)]

\* class-level marker sections
LEAD_INDICATOR == 255
INVALID == 253
DYNAMIC_VAL == 254

-----------------------------------------------------------------------------
(* _decode_data, one loop iteration per step.  A decoder state is          *)
(* [index, lead_byte, values, dpc].                                        *)

DecodeStart == [index |-> 0, lead_byte |-> <<>>, values |-> EmptyDict, dpc |-> "loop"]

\* raw_data[i] past the end raises IndexError
IndexError(st, i) == [st EXCEPT !.index = i, !.dpc = "raised"]

\* Section.Template(2).set_bytes(lead_byte + tail_byte).value
ParamOf(lead, tail) == FromBytes(lead \o <<tail>>)

\* a decoder that reads the lead byte but keeps the old one
StepLeadStale(raw, st) ==
    LET i1 == st.index + 1
    IN  IF i1 >= Len(raw) THEN IndexError(st, i1)
        ELSE [st EXCEPT !.index = i1 + 1]

\* lines 139-142
StepLead(raw, st) ==
    LET i1 == st.index + 1
    IN  IF i1 >= Len(raw) THEN IndexError(st, i1)
        ELSE [st EXCEPT !.index = i1 + 1, !.lead_byte = <<At(raw, i1)>>]

\* an INVALID branch that records the id as absent without looking
StepInvalidOverwrites(raw, st) ==
    LET i1 == st.index + 1
    IN  IF i1 >= Len(raw) THEN IndexError(st, i1)
        ELSE LET param == ParamOf(st.lead_byte, At(raw, i1))
             IN  [st EXCEPT !.index = i1 + 1,
                            !.values = DictSet(st.values, param, None)]

\* lines 143-150
StepInvalid(raw, st) ==
    LET i1 == st.index + 1
    IN  IF i1 >= Len(raw) THEN IndexError(st, i1)
        ELSE LET param == ParamOf(st.lead_byte, At(raw, i1))
             IN  [st EXCEPT !.index = i1 + 1,
                            !.values = IF param \in DOMAIN st.values
                                       THEN st.values
                                       ELSE DictSet(st.values, param, None)]

\* a truncation test that also counts the tail byte, and stops one byte early
DynamicTruncatedEager(raw, i2, byte_length) == (i2 + 1 + byte_length) >= Len(raw)

\* line 155: the truncation test of the DYNAMIC_VAL branch; i2 is the index
\* of the tail byte
DynamicTruncated(raw, i2, byte_length) == (i2 + byte_length) > Len(raw)

\* a DYNAMIC_VAL branch that forgets the lead byte once it has recorded
StepDynamicClearsLead(raw, st) ==
    LET i1 == st.index + 1
    IN  IF i1 >= Len(raw) THEN IndexError(st, i1)
        ELSE LET byte_length == At(raw, i1)
                 i2 == i1 + 1
             IN  IF DynamicTruncated(raw, i2, byte_length)
                 THEN [st EXCEPT !.index = i2, !.dpc = "returned"]
                 ELSE IF i2 >= Len(raw) THEN IndexError(st, i2)
                 ELSE LET param == ParamOf(st.lead_byte, At(raw, i2))
                          i3 == i2 + 1
                          dynamic_part == Slice(raw, i3, i3 + byte_length)
                          value == FromBytes(dynamic_part)
                      IN  [st EXCEPT !.index = i3 + byte_length,
                                     !.lead_byte = <<>>,
                                     !.values = DictSet(st.values, param, Some(value))]

\* lines 151-167
StepDynamic(raw, st) ==
    LET i1 == st.index + 1
    IN  IF i1 >= Len(raw) THEN IndexError(st, i1)
        ELSE LET byte_length == At(raw, i1)
                 i2 == i1 + 1
             IN  IF DynamicTruncated(raw, i2, byte_length)
                 THEN [st EXCEPT !.index = i2, !.dpc = "returned"]
                 ELSE IF i2 >= Len(raw) THEN IndexError(st, i2)
                 ELSE LET param == ParamOf(st.lead_byte, At(raw, i2))
                          i3 == i2 + 1
                          dynamic_part == Slice(raw, i3, i3 + byte_length)
                          value == FromBytes(dynamic_part)
                      IN  [st EXCEPT !.index = i3 + byte_length,
                                     !.values = DictSet(st.values, param, Some(value))]

\* lines 168-175
StepDefault(raw, st) ==
    LET param == ParamOf(st.lead_byte, At(raw, st.index))
        i1 == st.index + 1
    IN  IF i1 >= Len(raw) THEN IndexError(st, i1)
        ELSE [st EXCEPT !.index = i1 + 1,
                        !.values = DictSet(st.values, param, Some(At(raw, i1)))]

\* lines 137-176: the loop test, the dispatch on raw_data[index], the final return
DecodeStep(raw, st) ==
    IF ~(st.index < Len(raw)) THEN [st EXCEPT !.dpc = "returned"]
    ELSE LET func == At(raw, st.index)
         IN  IF func = LEAD_INDICATOR THEN StepLead(raw, st)
             ELSE IF func = INVALID THEN StepInvalid(raw, st)
             ELSE IF func = DYNAMIC_VAL THEN StepDynamic(raw, st)
             ELSE StepDefault(raw, st)

\* the whole call: iterate to the return or the exception
RECURSIVE DecodeRun(_, _)
DecodeRun(raw, st) ==
    IF st.dpc # "loop" THEN st ELSE DecodeRun(raw, DecodeStep(raw, st))

decode_data(raw) == DecodeRun(raw, DecodeStart)

-----------------------------------------------------------------------------
(* The client is not involved in the specifications of single functions *)

NoCall == [name |-> "none", ids |-> <<>>, items |-> <<>>, param |-> 0, value |-> 0]

NoClient ==
    /\ host = ""
    /\ port = 0
    /\ timeout = 0
    /\ device_id = <<>>
    /\ password = <<>>
    /\ id_size = 0
    /\ pwd_size = 0
    /\ CHECKSUM = 0
    /\ pc = "none"
    /\ op = NoCall
    /\ command = <<>>
    /\ sock = "none"
    /\ nsent = 0
    /\ raw_response = <<>>
    /\ timed_out = FALSE
    /\ warned = FALSE
    /\ result = None
    /\ outcome = "none"
    /\ events = <<>>
    /\ threads = <<>>

-----------------------------------------------------------------------------
(* Specification SpecDecode: _decode_data on bounded inputs *)

\* the spec's two scenarios, longer than MaxLen allows or outside ByteSamples
ScenarioDecode == <<255, 0, 5, 10, 253, 6, 254, 2, 7, 1, 44>>
ScenarioTruncated == <<254, 5, 1>>

\* a default, an INVALID and a DYNAMIC_VAL entry under the lead byte 1
ScenarioLead == <<255, 1, 0, 2, 253, 1, 254, 1, 2, 7>>

DecodeInputs ==
    UNION {[1..n -> ByteSamples] : n \in 0..MaxLen}
        \cup {ScenarioDecode, ScenarioTruncated, ScenarioLead}

DecoderState == [index |-> index, lead_byte |-> lead_byte, values |-> values, dpc |-> dpc]

SetDecoder(st) ==
    /\ index' = st.index
    /\ lead_byte' = st.lead_byte
    /\ values' = st.values
    /\ dpc' = st.dpc

InitDecode ==
    /\ raw_data \in DecodeInputs
    /\ index = 0
    /\ lead_byte = <<>>
    /\ values = EmptyDict
    /\ dpc = "loop"
    /\ parameters = <<>>
    /\ data_packet = <<>>
    /\ bpc = "idle"
    /\ NoClient

Looping == dpc = "loop" /\ index < Len(raw_data)

DecodeLead ==
    /\ Looping
    /\ At(raw_data, index) = LEAD_INDICATOR
    /\ SetDecoder(DecodeStep(raw_data, DecoderState))
    /\ UNCHANGED raw_data
    /\ UNCHANGED blockVars
    /\ UNCHANGED clientVars

DecodeInvalid ==
    /\ Looping
    /\ At(raw_data, index) = INVALID
    /\ SetDecoder(DecodeStep(raw_data, DecoderState))
    /\ UNCHANGED raw_data
    /\ UNCHANGED blockVars
    /\ UNCHANGED clientVars

DecodeDynamic ==
    /\ Looping
    /\ At(raw_data, index) = DYNAMIC_VAL
    /\ SetDecoder(DecodeStep(raw_data, DecoderState))
    /\ UNCHANGED raw_data
    /\ UNCHANGED blockVars
    /\ UNCHANGED clientVars

DecodeDefault ==
    /\ Looping
    /\ At(raw_data, index) \notin {LEAD_INDICATOR, INVALID, DYNAMIC_VAL}
    /\ SetDecoder(DecodeStep(raw_data, DecoderState))
    /\ UNCHANGED raw_data
    /\ UNCHANGED blockVars
    /\ UNCHANGED clientVars

\* line 176: the loop test fails, return values
DecodeReturn ==
    /\ dpc = "loop"
    /\ ~(index < Len(raw_data))
    /\ SetDecoder(DecodeStep(raw_data, DecoderState))
    /\ UNCHANGED raw_data
    /\ UNCHANGED blockVars
    /\ UNCHANGED clientVars

NextDecode ==
    \/ DecodeLead
    \/ DecodeInvalid
    \/ DecodeDynamic
    \/ DecodeDefault
    \/ DecodeReturn

SpecDecode == InitDecode /\ [][NextDecode]_vars

-----------------------------------------------------------------------------
(* Section serialisation (packet.py) *)

\* Section(value).byte_size when no size is given: the minimum number of
\* bytes that hold the value, one byte for 0
RECURSIVE SectionByteSize(_)
SectionByteSize(value) ==
    IF value < 256 THEN 1 ELSE 1 + SectionByteSize(value \div 256)

\* Section(value, byte_size).to_bytes(): big-endian, exactly byte_size bytes
RECURSIVE SectionToBytes(_, _)
SectionToBytes(value, byte_size) ==
    IF byte_size = 0 THEN <<>>
    ELSE Append(SectionToBytes(value \div 256, byte_size - 1), value % 256)

\* Section(value).to_bytes()
SectionBytes(value) == SectionToBytes(value, SectionByteSize(value))

-----------------------------------------------------------------------------
(* _construct_command_block.  A mapping is the sequence of its (id, value) *)
(* items in insertion order, ids distinct; a value is None or Some(v).     *)

Keys(items) == [k \in 1..Len(items) |-> items[k][1]]

KeySet(items) == {items[k][1] : k \in 1..Len(items)}

\* parameters[param]
Lookup(items, param) ==
    items[CHOOSE k \in 1..Len(items) : items[k][1] = param][2]

\* list.sort(), left as it was
Unsorted(params) == params

RECURSIVE InsertSorted(_, _)
InsertSorted(sorted, x) ==
    IF sorted = <<>> THEN <<x>>
    ELSE IF x < Head(sorted) THEN <<x>> \o sorted
    ELSE <<Head(sorted)>> \o InsertSorted(Tail(sorted), x)

RECURSIVE SortAscending(_)
SortAscending(params) ==
    IF params = <<>> THEN <<>>
    ELSE InsertSorted(SortAscending(Tail(params)), Head(params))

\* lines 179-180: params = list(parameters.keys()); params.sort()
SortedParams(params) == SortAscending(params)

\* lines 186-188: params_by_lead as the sequence of its (lead, tails) items in
\* insertion order
AddToLead(groups, lead, tail) ==
    IF \E g \in 1..Len(groups) : groups[g].lead = lead
    THEN [g \in 1..Len(groups) |->
             IF groups[g].lead = lead
             THEN [groups[g] EXCEPT !.tails = Append(@, tail)]
             ELSE groups[g]]
    ELSE Append(groups, [lead |-> lead, tails |-> <<tail>>])

\* lines 181-188
RECURSIVE ParamsByLead(_, _)
ParamsByLead(params, groups) ==
    IF params = <<>> THEN groups
    ELSE LET raw == SectionToBytes(Head(params), 2)
         IN  ParamsByLead(Tail(params), AddToLead(groups, raw[1], raw[2]))

\* a write entry that leaves out the length byte
EmitTailNoLength(items, lead, tail) ==
    LET param == FromBytes(SectionBytes(lead) \o SectionBytes(tail))
        val == Lookup(items, param)
    IN  IF val # None
        THEN <<DYNAMIC_VAL>> \o SectionBytes(tail) \o SectionBytes(val[1])
        ELSE SectionBytes(tail)

\* lines 195-205: the sections appended for one tail of a lead group
EmitTail(items, lead, tail) ==
    LET param == FromBytes(SectionBytes(lead) \o SectionBytes(tail))
        val == Lookup(items, param)
    IN  IF val # None
        THEN <<DYNAMIC_VAL>> \o SectionBytes(SectionByteSize(val[1]))
                 \o SectionBytes(tail) \o SectionBytes(val[1])
        ELSE SectionBytes(tail)

\* lines 194-205
RECURSIVE EmitTails(_, _, _)
EmitTails(items, lead, tails) ==
    IF tails = <<>> THEN <<>>
    ELSE EmitTail(items, lead, Head(tails)) \o EmitTails(items, lead, Tail(tails))

\* lines 191-205
RECURSIVE EmitGroups(_, _)
EmitGroups(items, groups) ==
    IF groups = <<>> THEN <<>>
    ELSE <<LEAD_INDICATOR>> \o SectionBytes(Head(groups).lead)
             \o EmitTails(items, Head(groups).lead, Head(groups).tails)
             \o EmitGroups(items, Tail(groups))

\* lines 178-206: the bytes of the returned data packet
construct_command_block(items) ==
    EmitGroups(items, ParamsByLead(SortedParams(Keys(items)), <<>>))

-----------------------------------------------------------------------------
(* Specification SpecBlock: _construct_command_block on bounded mappings,  *)
(* then _decode_data on the block it built                                 *)

\* most items in an enumerated mapping
MaxParams == 3

\* 16-bit parameter ids: two leads, equal tails under different leads, a tail
\* equal to a marker byte
IdSamples == {1, 2, 255, 256, 511}

\* None (read) or a value to write: one, two and three byte values
ValueSamples == {None, Some(0), Some(7), Some(12), Some(300), Some(65536)}

DistinctKeys(items) ==
    \A j, k \in 1..Len(items) : j # k => items[j][1] # items[k][1]

BlockInputs ==
    UNION {{items \in [1..n -> IdSamples \X ValueSamples] : DistinctKeys(items)}
               : n \in 0..MaxParams}

InitBlock ==
    /\ parameters \in BlockInputs
    /\ data_packet = <<>>
    /\ bpc = "call"
    /\ raw_data = <<>>
    /\ index = 0
    /\ lead_byte = <<>>
    /\ values = EmptyDict
    /\ dpc = "idle"
    /\ NoClient

ConstructCommandBlock ==
    /\ bpc = "call"
    /\ data_packet' = construct_command_block(parameters)
    /\ bpc' = "built"
    /\ UNCHANGED <<parameters, decodeVars>>
    /\ UNCHANGED clientVars

\* the block handed to _decode_data
DecodeBlock ==
    /\ bpc = "built"
    /\ raw_data' = data_packet
    /\ SetDecoder(decode_data(data_packet))
    /\ bpc' = "decoded"
    /\ UNCHANGED <<parameters, data_packet>>
    /\ UNCHANGED clientVars

NextBlock ==
    \/ ConstructCommandBlock
    \/ DecodeBlock

SpecBlock == InitBlock /\ [][NextBlock]_vars

-----------------------------------------------------------------------------
(* Packet (packet.py): a list of sections, here the list of their bytes *)

RECURSIVE PacketToBytes(_)
PacketToBytes(packet) ==
    IF packet = <<>> THEN <<>> ELSE Head(packet) \o PacketToBytes(Tail(packet))

\* a Section.Template(n) nobody has filled
Zeros(n) == [k \in 1..n |-> 0]

\* list.pop(i) and list[i] = x with the code's 0-based index
PopAt(list, i) == SubSeq(list, 1, i) \o SubSeq(list, i + 2, Len(list))
SetAt(list, i, x) == [list EXCEPT ![i + 1] = x]

\* list[1:-1]
Inner(list) == SubSeq(list, 2, Len(list) - 1)

-----------------------------------------------------------------------------
(* Class-level sections and the checksum *)

HEADER == 65021
PROTOCOL_TYPE == 2
FUNC_R == 1
FUNC_RW == 3

\* sum(bytes), the range lo..hi split in halves to keep the recursion shallow
RECURSIVE SumRange(_, _, _)
SumRange(bs, lo, hi) ==
    IF lo > hi THEN 0
    ELSE IF lo = hi THEN bs[lo]
    ELSE LET mid == (lo + hi) \div 2
         IN  SumRange(bs, lo, mid) + SumRange(bs, mid + 1, hi)

SumBytes(bs) == SumRange(bs, 1, Len(bs))

\* a swap that does not mask the shifted-down high part
swap_high_low_unmasked(value) == ((value % 256) * 256) + (value \div 256)

\* line 87 with swap_size = 8:
\*   (value << 8 & 0xFF00) | (value >> 8 & 0x00FF)
\* the two masked parts share no bit, so | is +
swap_high_low(value) == ((value % 256) * 256) + ((value \div 256) % 256)

\* lines 89-91: the value of Section(swap_high_low(sum(bytes)), 2)
checksum(bytes) == swap_high_low(SumBytes(bytes))

-----------------------------------------------------------------------------
(* Frames *)

\* a _protocol that keeps the password section of a blank password
ProtocolKeepsPassword(idsz, pwdsz) ==
    <<SectionBytes(HEADER), SectionBytes(PROTOCOL_TYPE), SectionBytes(idsz),
      Zeros(idsz), SectionBytes(pwdsz), Zeros(pwdsz), Zeros(1), <<>>, Zeros(2)>>

\* lines 54-60
Protocol(idsz, pwdsz) ==
    LET protocol == <<SectionBytes(HEADER), SectionBytes(PROTOCOL_TYPE),
                      SectionBytes(idsz), Zeros(idsz), SectionBytes(pwdsz),
                      Zeros(pwdsz), Zeros(1), <<>>, Zeros(2)>>
    IN  IF pwdsz = 0 THEN PopAt(protocol, 5) ELSE protocol

\* lines 93-109: the sections of the command
Command(id, pwd, idsz, pwdsz, function, data) ==
    LET c0 == Protocol(idsz, pwdsz)
        c1 == SetAt(c0, 3, id)
        c2 == SetAt(c1, 4, SectionBytes(pwdsz))
        i5 == IF pwdsz # 0 THEN 5 ELSE 4
        c3 == IF pwdsz # 0 THEN SetAt(c2, 5, pwd) ELSE c2
        c4 == SetAt(c3, i5 + 1, SectionBytes(function))
        c5 == SetAt(c4, i5 + 2, data)
    IN  SetAt(c5, i5 + 3, SectionToBytes(checksum(PacketToBytes(Inner(c5))), 2))

\* bytes in front of the expanding data section of a response (lines 62-66)
ResponsePrefixLen(idsz, pwdsz) ==
    Len(SectionBytes(HEADER)) + Len(SectionBytes(PROTOCOL_TYPE))
        + Len(SectionBytes(idsz)) + idsz + Len(SectionBytes(pwdsz)) + 1

\* Packet.decode of the response template of lines 62-66: each fixed section
\* takes its size, the expanding section takes the rest of the buffer (the
\* caller cuts the checksum off first, line 121), the trailing CHECKSUM entry
\* gets nothing
ResponseDecode(buf, idsz, pwdsz) ==
    LET n1 == Len(SectionBytes(HEADER))
        n2 == n1 + Len(SectionBytes(PROTOCOL_TYPE))
        n3 == n2 + Len(SectionBytes(idsz))
        n4 == n3 + idsz
        n5 == n4 + Len(SectionBytes(pwdsz))
        n6 == n5 + 1
    IN  <<Slice(buf, 0, n1), Slice(buf, n1, n2), Slice(buf, n2, n3),
          Slice(buf, n3, n4), Slice(buf, n4, n5), Slice(buf, n5, n6),
          Slice(buf, n6, Len(buf)), <<>>>>

\* raw[:-2] and raw[-2:]
ButLast2(raw) == Slice(raw, 0, Len(raw) - 2)
Last2(raw) == Slice(raw, IF Len(raw) > 2 THEN Len(raw) - 2 ELSE 0, Len(raw))

\* a _communicate_block that gives the blank section back on a mismatch
CommunicateBlockStrict(raw, idsz, pwdsz) ==
    IF Len(raw) = 0
    THEN [data |-> <<>>, set |-> FALSE, actual |-> 0, warned |-> FALSE]
    ELSE LET response == ResponseDecode(ButLast2(raw), idsz, pwdsz)
             actual_check_sum == FromBytes(Last2(raw))
             expected_check_sum == checksum(PacketToBytes(Inner(response)))
         IN  [data |-> IF actual_check_sum # expected_check_sum
                       THEN <<>> ELSE response[Len(response) - 1],
              set |-> TRUE,
              actual |-> actual_check_sum,
              warned |-> actual_check_sum # expected_check_sum]

\* lines 118-131: the bytes of the returned section, whether CHECKSUM was
\* set and to what, whether the mismatch was logged
CommunicateBlock(raw, idsz, pwdsz) ==
    IF Len(raw) = 0
    THEN [data |-> <<>>, set |-> FALSE, actual |-> 0, warned |-> FALSE]
    ELSE LET response == ResponseDecode(ButLast2(raw), idsz, pwdsz)
             actual_check_sum == FromBytes(Last2(raw))
             expected_check_sum == checksum(PacketToBytes(Inner(response)))
         IN  [data |-> response[Len(response) - 1],
              set |-> TRUE,
              actual |-> actual_check_sum,
              warned |-> actual_check_sum # expected_check_sum]

\* a receive whose timeout escapes
ReceiveRaising(received, expired) ==
    [response |-> IF expired THEN <<>> ELSE received, raised |-> expired]

\* lines 77-81: response = bytes(); try recv; except socket.timeout: log
Receive(received, expired) ==
    [response |-> IF expired THEN <<>> ELSE received, raised |-> FALSE]

-----------------------------------------------------------------------------
(* Public operations *)

\* lines 209-211: params = {}; for param in parameters: params[param] = None
RECURSIVE ReadItems(_, _)
ReadItems(ids, items) ==
    IF ids = <<>> THEN items
    ELSE ReadItems(Tail(ids),
                   IF Head(ids) \in KeySet(items) THEN items
                   ELSE Append(items, <<Head(ids), None>>))

\* the function code and data block each public call hands to
\* _communicate_block (lines 212-213, 218, 224-225, 230-231, 236)
CallFunction(c) ==
    IF c.name \in {"write_params", "write_param"} THEN FUNC_RW ELSE FUNC_R

CallData(c) ==
    IF c.name = "read_params" THEN construct_command_block(ReadItems(c.ids, <<>>))
    ELSE IF c.name \in {"read_param", "device_type"}
         THEN construct_command_block(ReadItems(<<c.param>>, <<>>))
    ELSE IF c.name = "write_params" THEN construct_command_block(c.items)
    ELSE SectionBytes(c.param) \o SectionBytes(c.value)

\* params[param] or 0
OrZero(val) == IF val = None THEN 0 ELSE val[1]

\* lines 217-221
ReadParamResult(param, decoded) ==
    IF decoded.dpc = "raised" THEN [outcome |-> "raised", result |-> None]
    ELSE IF param \notin DOMAIN decoded.values
         THEN [outcome |-> "returned", result |-> 0]
    ELSE [outcome |-> "returned", result |-> OrZero(decoded.values[param])]

\* line 233: self._decode_data(raw_data)[parameter] or 0; a missing key raises
\* KeyError
WriteParamResult(param, decoded) ==
    IF decoded.dpc = "raised" THEN [outcome |-> "raised", result |-> None]
    ELSE IF param \notin DOMAIN decoded.values
         THEN [outcome |-> "raised", result |-> None]
    ELSE [outcome |-> "returned", result |-> OrZero(decoded.values[param])]

\* lines 214-215, 226-227
ParamsResult(decoded) ==
    IF decoded.dpc = "raised" THEN [outcome |-> "raised", result |-> None]
    ELSE [outcome |-> "returned", result |-> decoded.values]

CallResult(c, decoded) ==
    IF c.name \in {"read_params", "write_params"} THEN ParamsResult(decoded)
    ELSE IF c.name = "write_param" THEN WriteParamResult(c.param, decoded)
    ELSE ReadParamResult(c.param, decoded)

-----------------------------------------------------------------------------
(* Specification Spec: a constructed client making public calls, one       *)
(* transport exchange per call                                             *)

\* longest enumerated data block of a response
MaxRespLen == 2

\* the bytes enumerated response data blocks are drawn from
RespBytes == {1, 7, 253}

\* device ids ("A" and the default "DEFAULT_DEVICEID") and passwords
\* ("1111", the default, and the empty one)
DeviceIdSamples ==
    {<<65>>, <<68, 69, 70, 65, 85, 76, 84, 95, 68, 69, 86, 73, 67, 69, 73, 68>>}
PasswordSamples == {<<49, 49, 49, 49>>, <<>>}

\* a device id of 520 "~": it takes the byte sum of a command past 65535
LongDeviceId == [k \in 1..520 |-> 126]

\* values an earlier exchange has left in the class-level CHECKSUM section
\* (0 when there was none)
ChecksumSamples == {0, 513}

ReadParams(ids) ==
    [name |-> "read_params", ids |-> ids, items |-> <<>>, param |-> 0, value |-> 0]
ReadParam(param) ==
    [name |-> "read_param", ids |-> <<>>, items |-> <<>>, param |-> param, value |-> 0]
DeviceType ==
    [name |-> "device_type", ids |-> <<>>, items |-> <<>>, param |-> 185, value |-> 0]
WriteParams(items) ==
    [name |-> "write_params", ids |-> <<>>, items |-> items, param |-> 0, value |-> 0]
WriteParam(param, value) ==
    [name |-> "write_param", ids |-> <<>>, items |-> <<>>, param |-> param,
     value |-> value]

CallSamples ==
    {ReadParams(<<>>), ReadParams(<<1>>), ReadParams(<<256, 1>>), ReadParams(<<1, 1>>),
     ReadParam(1), ReadParam(256), DeviceType,
     WriteParams(<<>>), WriteParams(<<<<1, Some(7)>>>>),
     WriteParams(<<<<1, Some(7)>>, <<256, Some(12)>>>>),
     WriteParam(1, 7), WriteParam(256, 0)}

\* data blocks a device answers with: every short block over RespBytes, and
\* longer ones: ids under lead 1, a zero value, a dynamic value, a truncated
\* dynamic value, the device type
ResponseData ==
    UNION {[1..n -> RespBytes] : n \in 0..MaxRespLen}
        \cup {<<255, 1, 0, 12, 255, 0, 1, 7>>, <<255, 1, 0, 0>>, <<1, 0>>,
              <<254, 2, 1, 1, 44>>, <<254, 5, 1>>, <<185, 6>>, <<255, 1, 253, 0>>}

\* the frame of a response as the client's template reads it (lines 62-66):
\* header, protocol type, id size, id, password size, function, data, checksum
ResponseBody(id, idsz, pwdsz, function, data) ==
    SectionBytes(PROTOCOL_TYPE) \o SectionBytes(idsz) \o id \o SectionBytes(pwdsz)
        \o SectionBytes(function) \o data

WrongChecksum(right) == IF right = <<0, 0>> THEN <<0, 1>> ELSE <<0, 0>>

\* the datagrams a device may answer with: well-framed, the checksum right or
\* wrong; and the empty datagram
Responses(id, idsz, pwdsz, function) ==
    {<<>>} \cup UNION {LET body == ResponseBody(id, idsz, pwdsz, function, data)
               right == SectionToBytes(checksum(body), 2)
           IN  {SectionBytes(HEADER) \o body \o right,
                SectionBytes(HEADER) \o body \o WrongChecksum(right)}
           : data \in ResponseData}

\* lines 24-25
DEFAULT_PORT == 4000
DEFAULT_TIMEOUT == 1

\* the host the clients are constructed with
HostSample == "fan.local"

\* the state __init__ leaves (lines 40-48), device_id not empty
InitWith(ids) ==
    /\ host = HostSample
    /\ port = DEFAULT_PORT
    /\ timeout = DEFAULT_TIMEOUT
    /\ device_id \in ids
    /\ password \in PasswordSamples
    /\ id_size = Len(device_id)
    /\ pwd_size = Len(password)
    /\ CHECKSUM \in ChecksumSamples
    /\ pc = "idle"
    /\ op = NoCall
    /\ command = <<>>
    /\ sock = "none"
    /\ nsent = 0
    /\ raw_response = <<>>
    /\ timed_out = FALSE
    /\ warned = FALSE
    /\ result = None
    /\ outcome = "none"
    /\ events = <<>>
    /\ threads = <<>>
    /\ raw_data = <<>>
    /\ index = 0
    /\ lead_byte = <<>>
    /\ values = EmptyDict
    /\ dpc = "idle"
    /\ parameters = <<>>
    /\ data_packet = <<>>
    /\ bpc = "idle"

Init == InitWith(DeviceIdSamples)

\* a public call that sends the command of the call before it again when
\* there was one
CallReusesCommand ==
    /\ pc = "idle"
    /\ \E c \in CallSamples :
          /\ op' = c
          /\ command' = IF command # <<>> THEN command
                         ELSE PacketToBytes(Command(device_id, password, id_size,
                                                    pwd_size, CallFunction(c),
                                                    CallData(c)))
    /\ pc' = "connect"
    /\ sock' = "none"
    /\ nsent' = 0
    /\ raw_response' = <<>>
    /\ timed_out' = FALSE
    /\ warned' = FALSE
    /\ result' = None
    /\ outcome' = "running"
    /\ events' = <<>>
    /\ raw_data' = <<>>
    /\ SetDecoder([DecodeStart EXCEPT !.dpc = "idle"])
    /\ UNCHANGED <<configVars, CHECKSUM, blockVars, threads>>

\* a public call starts: the data block and the command are built
\* (lines 112-115)
Call ==
    /\ pc = "idle"
    /\ \E c \in CallSamples :
          /\ op' = c
          /\ command' = PacketToBytes(Command(device_id, password, id_size, pwd_size,
                                              CallFunction(c), CallData(c)))
    /\ pc' = "connect"
    /\ sock' = "none"
    /\ nsent' = 0
    /\ raw_response' = <<>>
    /\ timed_out' = FALSE
    /\ warned' = FALSE
    /\ result' = None
    /\ outcome' = "running"
    /\ events' = <<>>
    /\ raw_data' = <<>>
    /\ SetDecoder([DecodeStart EXCEPT !.dpc = "idle"])
    /\ UNCHANGED <<configVars, CHECKSUM, blockVars, threads>>

\* lines 68-72, 75: socket(), settimeout(), connect()
Connect ==
    /\ pc = "connect"
    /\ sock' = "connected"
    /\ events' = events \o <<"socket", "connect">>
    /\ pc' = "send"
    /\ UNCHANGED <<configVars, CHECKSUM, op, command, nsent, raw_response, timed_out,
                   warned, result, outcome, decodeVars, blockVars, threads>>

\* line 76: sendall(data)
SendAll ==
    /\ pc = "send"
    /\ nsent' = nsent + 1
    /\ events' = Append(events, "sendall")
    /\ pc' = "recv"
    /\ UNCHANGED <<configVars, CHECKSUM, op, command, sock, raw_response, timed_out,
                   warned, result, outcome, decodeVars, blockVars, threads>>

\* a receive whose timeout branch returns without closing
AfterReceiveNoClose(r) ==
    /\ raw_response' = r.response
    /\ IF r.raised
       THEN pc' = "done" /\ outcome' = "raised"
       ELSE IF Len(r.response) = 0
            THEN pc' = "process" /\ UNCHANGED outcome
            ELSE pc' = "close" /\ UNCHANGED outcome

\* what follows the receive: an exception leaves the call, otherwise close
AfterReceive(r) ==
    /\ raw_response' = r.response
    /\ IF r.raised
       THEN pc' = "done" /\ outcome' = "raised"
       ELSE pc' = "close" /\ UNCHANGED outcome

\* lines 77-79: the datagram arrives in time
RecvReply ==
    /\ pc = "recv"
    /\ \E received \in Responses(device_id, id_size, pwd_size, CallFunction(op)) :
          AfterReceive(Receive(received, FALSE))
    /\ timed_out' = FALSE
    /\ events' = Append(events, "recv")
    /\ UNCHANGED <<configVars, CHECKSUM, op, command, sock, nsent, warned, result,
                   decodeVars, blockVars, threads>>

\* lines 77-81: socket.timeout
RecvTimeout ==
    /\ pc = "recv"
    /\ AfterReceive(Receive(<<>>, TRUE))
    /\ timed_out' = TRUE
    /\ events' = Append(events, "recv")
    /\ UNCHANGED <<configVars, CHECKSUM, op, command, sock, nsent, warned, result,
                   decodeVars, blockVars, threads>>

\* lines 82-83: close(), return response
Close ==
    /\ pc = "close"
    /\ sock' = "closed"
    /\ events' = Append(events, "close")
    /\ pc' = "process"
    /\ UNCHANGED <<configVars, CHECKSUM, op, command, nsent, raw_response, timed_out,
                   warned, result, outcome, decodeVars, blockVars, threads>>

\* lines 117-131 and the rest of the public operation: the response is
\* parsed, its checksum compared, its data block decoded, the value returned
Process ==
    /\ pc = "process"
    /\ LET block == CommunicateBlock(raw_response, id_size, pwd_size)
           decoded == decode_data(block.data)
           ret == CallResult(op, decoded)
       IN  /\ CHECKSUM' = IF block.set THEN block.actual ELSE CHECKSUM
           /\ warned' = block.warned
           /\ raw_data' = block.data
           /\ SetDecoder(decoded)
           /\ result' = ret.result
           /\ outcome' = ret.outcome
    /\ pc' = "done"
    /\ UNCHANGED <<configVars, op, command, sock, nsent, raw_response, timed_out,
                   events, blockVars, threads>>

\* the call is over; the client can be called again
Return ==
    /\ pc = "done"
    /\ pc' = "idle"
    /\ UNCHANGED <<configVars, CHECKSUM, op, command, sock, nsent, raw_response,
                   timed_out, warned, result, outcome, events, decodeVars, blockVars,
                   threads>>

Next ==
    \/ Call
    \/ Connect
    \/ SendAll
    \/ RecvReply
    \/ RecvTimeout
    \/ Close
    \/ Process
    \/ Return

Spec == Init /\ [][Next]_vars

-----------------------------------------------------------------------------
(* Specification SpecCommand: the command frame _command builds for each   *)
(* call, also for a client whose device id makes the frame long            *)

InitCommand == InitWith(DeviceIdSamples \cup {LongDeviceId})

NextCommand == Call

SpecCommand == InitCommand /\ [][NextCommand]_vars

-----------------------------------------------------------------------------
(* Specification SpecConstruct: __init__ with its arguments, then the      *)
(* command of a first call on the client it gave                           *)

\* device ids __init__ is called with: the blank one too
ConstructIdSamples == DeviceIdSamples \cup {LongDeviceId, <<>>}

InitConstruct ==
    /\ pc = "new"
    /\ CHECKSUM \in ChecksumSamples
    /\ host = ""
    /\ port = 0
    /\ timeout = 0
    /\ device_id = <<>>
    /\ password = <<>>
    /\ id_size = 0
    /\ pwd_size = 0
    /\ op = NoCall
    /\ command = <<>>
    /\ sock = "none"
    /\ nsent = 0
    /\ raw_response = <<>>
    /\ timed_out = FALSE
    /\ warned = FALSE
    /\ result = None
    /\ outcome = "none"
    /\ events = <<>>
    /\ threads = <<>>
    /\ raw_data = <<>>
    /\ index = 0
    /\ lead_byte = <<>>
    /\ values = EmptyDict
    /\ dpc = "idle"
    /\ parameters = <<>>
    /\ data_packet = <<>>
    /\ bpc = "idle"

\* a Section compared with an int: by its value
SectionEq(value, other) == value = other

\* an __init__ without the check of line 46
ConstructUnchecked ==
    /\ pc = "new"
    /\ \E pwd \in PasswordSamples, id \in ConstructIdSamples :
          /\ host' = HostSample
          /\ port' = DEFAULT_PORT
          /\ password' = pwd
          /\ device_id' = id
          /\ pwd_size' = Len(pwd)
          /\ id_size' = Len(id)
          /\ pc' = "idle"
          /\ timeout' = DEFAULT_TIMEOUT
          /\ UNCHANGED outcome
    /\ UNCHANGED <<CHECKSUM, op, command, sock, nsent, raw_response, timed_out,
                   warned, result, events, threads, decodeVars, blockVars>>

\* lines 40-48: the attributes are assigned in order; a device id of length
\* 0 raises ValueError before _timeout is assigned and no client is returned
Construct ==
    /\ pc = "new"
    /\ \E pwd \in PasswordSamples, id \in ConstructIdSamples :
          /\ host' = HostSample
          /\ port' = DEFAULT_PORT
          /\ password' = pwd
          /\ device_id' = id
          /\ pwd_size' = Len(pwd)
          /\ id_size' = Len(id)
          /\ IF SectionEq(Len(id), 0)
             THEN pc' = "failed" /\ outcome' = "raised" /\ UNCHANGED timeout
             ELSE pc' = "idle" /\ timeout' = DEFAULT_TIMEOUT /\ UNCHANGED outcome
    /\ UNCHANGED <<CHECKSUM, op, command, sock, nsent, raw_response, timed_out,
                   warned, result, events, threads, decodeVars, blockVars>>

NextConstruct ==
    \/ Construct
    \/ Call

SpecConstruct == InitConstruct /\ [][NextConstruct]_vars

-----------------------------------------------------------------------------
(* Specification SpecConcurrent: two clients, each called by its own       *)
(* thread with read_params and now inside _communicate_block, the command  *)
(* sent.  CHECKSUM is the one class-level section (line 18) both use.      *)

Threads == {1, 2}

\* the two clients: device "A" with a blank password, device "B" with "1111"
ThreadClients ==
    <<[device_id |-> <<65>>, password |-> <<>>],
      [device_id |-> <<66>>, password |-> <<49, 49, 49, 49>>]>>

\* everything but CHECKSUM and threads
soloVars == <<configVars, pc, op, command, sock, nsent, raw_response, timed_out,
              warned, result, outcome, events, decodeVars, blockVars>>

InitConcurrent ==
    /\ threads = [t \in Threads |->
                     [device_id |-> ThreadClients[t].device_id,
                      password |-> ThreadClients[t].password,
                      pc |-> "recv",
                      raw_response |-> <<>>,
                      actual_check_sum |-> 0,
                      warned |-> FALSE,
                      result |-> None,
                      outcome |-> "running"]]
    /\ CHECKSUM = 0
    /\ host = ""
    /\ port = 0
    /\ timeout = 0
    /\ device_id = <<>>
    /\ password = <<>>
    /\ id_size = 0
    /\ pwd_size = 0
    /\ pc = "none"
    /\ op = NoCall
    /\ command = <<>>
    /\ sock = "none"
    /\ nsent = 0
    /\ raw_response = <<>>
    /\ timed_out = FALSE
    /\ warned = FALSE
    /\ result = None
    /\ outcome = "none"
    /\ events = <<>>
    /\ raw_data = <<>>
    /\ index = 0
    /\ lead_byte = <<>>
    /\ values = EmptyDict
    /\ dpc = "idle"
    /\ parameters = <<>>
    /\ data_packet = <<>>
    /\ bpc = "idle"

\* lines 214-215: read_params returns the decoded data block
ThreadReturn(th, data) ==
    LET ret == ParamsResult(decode_data(data))
    IN  [th EXCEPT !.pc = "done", !.result = ret.result, !.outcome = ret.outcome]

\* lines 116-119: the response of this thread's exchange; an empty one gives
\* the blank section back at once
ThreadReceive(t) ==
    /\ threads[t].pc = "recv"
    /\ \E received \in Responses(threads[t].device_id, Len(threads[t].device_id),
                                  Len(threads[t].password), FUNC_R) :
          LET th == [threads[t] EXCEPT !.raw_response = received]
          IN  threads' = [threads EXCEPT ![t] =
                             IF Len(received) = 0 THEN ThreadReturn(th, <<>>)
                             ELSE [th EXCEPT !.pc = "set_bytes"]]
    /\ UNCHANGED CHECKSUM
    /\ UNCHANGED soloVars

\* line 125, the call self.CHECKSUM.set_bytes(raw_response[-2:])
ThreadSetBytes(t) ==
    /\ threads[t].pc = "set_bytes"
    /\ CHECKSUM' = FromBytes(Last2(threads[t].raw_response))
    /\ threads' = [threads EXCEPT ![t].pc = "value"]
    /\ UNCHANGED soloVars

\* line 125, the read of .value on what set_bytes returned, the CHECKSUM
\* section
ThreadValue(t) ==
    /\ threads[t].pc = "value"
    /\ threads' = [threads EXCEPT ![t].actual_check_sum = CHECKSUM,
                                   ![t].pc = "compare"]
    /\ UNCHANGED CHECKSUM
    /\ UNCHANGED soloVars

\* lines 122, 126-131 and 214-215: the checksum of the parsed response is
\* compared with actual_check_sum, the data section decoded and returned
ThreadCompare(t) ==
    /\ threads[t].pc = "compare"
    /\ LET th == threads[t]
           response == ResponseDecode(ButLast2(th.raw_response), Len(th.device_id),
                                      Len(th.password))
           expected_check_sum == checksum(PacketToBytes(Inner(response)))
       IN  threads' = [threads EXCEPT ![t] =
                          ThreadReturn([th EXCEPT !.warned =
                                           th.actual_check_sum # expected_check_sum],
                                       response[Len(response) - 1])]
    /\ UNCHANGED CHECKSUM
    /\ UNCHANGED soloVars

NextConcurrent ==
    \E t \in Threads :
        \/ ThreadReceive(t)
        \/ ThreadSetBytes(t)
        \/ ThreadValue(t)
        \/ ThreadCompare(t)

SpecConcurrent == InitConcurrent /\ [][NextConcurrent]_vars

-----------------------------------------------------------------------------
(* The reference scan of the incoming data block (specification 4.5),      *)
(* written over the remaining bytes with an integer lead byte.             *)

\* big-endian integer of a byte string, most significant byte first
RECURSIVE BigEndianRef(_, _)
BigEndianRef(bs, acc) ==
    IF bs = <<>> THEN acc ELSE BigEndianRef(Tail(bs), acc * 256 + Head(bs))

Drop(bs, n) == SubSeq(bs, n + 1, Len(bs))

\* every marker is followed by all the bytes it needs
RECURSIVE WellFormedBlock(_)
WellFormedBlock(bs) ==
    IF bs = <<>> THEN TRUE
    ELSE IF Head(bs) = 254
         THEN /\ Len(bs) >= 3
              /\ Len(bs) >= 3 + bs[2]
              /\ WellFormedBlock(Drop(bs, 3 + bs[2]))
         ELSE Len(bs) >= 2 /\ WellFormedBlock(Drop(bs, 2))

RECURSIVE RefScan(_, _, _)
RefScan(bs, lead, acc) ==
    IF bs = <<>> THEN acc
    ELSE IF Head(bs) = 255 THEN RefScan(Drop(bs, 2), bs[2], acc)
    ELSE IF Head(bs) = 253
         THEN LET id == lead * 256 + bs[2]
              IN  RefScan(Drop(bs, 2), lead,
                          IF id \in DOMAIN acc THEN acc ELSE (id :> None) @@ acc)
    ELSE IF Head(bs) = 254
         THEN LET id == lead * 256 + bs[3]
                  v  == BigEndianRef(SubSeq(bs, 4, 3 + bs[2]), 0)
              IN  RefScan(Drop(bs, 3 + bs[2]), lead, (id :> Some(v)) @@ acc)
    ELSE LET id == lead * 256 + bs[1]
         IN  RefScan(Drop(bs, 2), lead, (id :> Some(bs[2])) @@ acc)

ScenarioDecodeResult == (5 :> Some(10)) @@ (6 :> None) @@ (7 :> Some(300))

\* C1: for every data block in which each marker is followed by all the bytes
\* it needs, _decode_data returns (never raises) and its result is exactly the
\* mapping of the reference left-to-right scan (0xFF sets the lead byte, 0xFD
\* records lead:tail as absent when the id is not yet in the result, 0xFE
\* records the big-endian value of its L bytes, any other byte is a tail with
\* a one-byte value); FF 00 05 0A FD 06 FE 02 07 01 2C gives
\* {5: 10, 6: absent, 7: 300}.
C1_DecodeMatchesReferenceScan ==
    /\ WellFormedBlock(raw_data) =>
          /\ dpc # "raised"
          /\ dpc = "returned" => values = RefScan(raw_data, 0, EmptyDict)
    /\ (raw_data = ScenarioDecode /\ dpc = "returned") => values = ScenarioDecodeResult

C1_Witness ==
    /\ raw_data = ScenarioDecode
    /\ dpc = "returned"
    /\ values = ScenarioDecodeResult

\* a DYNAMIC_VAL entry at index i of raw that declares a length L >= 1 whose
\* L value bytes are not all in the buffer
TruncatedDynamicAt(raw, i) ==
    /\ i + 1 < Len(raw)
    /\ At(raw, i) = 254
    /\ At(raw, i + 1) >= 1
    /\ i + 3 + At(raw, i + 1) > Len(raw)

\* C2: whenever a DYNAMIC_VAL entry declares a length L whose L value bytes are
\* not all present, _decode_data stops at that entry and returns exactly the
\* mapping accumulated before it (nothing added or changed, no exception);
\* FE 05 01 decodes to {}.
C2_TruncatedDynamicStops ==
    /\ [][(dpc = "loop" /\ TruncatedDynamicAt(raw_data, index))
            => (dpc' = "returned" /\ values' = values)]_vars
    /\ []((raw_data = ScenarioTruncated /\ dpc # "loop")
            => (dpc = "returned" /\ values = EmptyDict))

\* C3: for every byte sequence _decode_data returns a mapping and never raises.
C3_DecodeNeverRaises == dpc # "raised"


-----------------------------------------------------------------------------
(* Reference layout of the outgoing data block (specification 4.4),        *)
(* written over the set of ids.                                            *)

MinOf(S) == CHOOSE m \in S : \A x \in S : m <= x

RECURSIVE Ascending(_)
Ascending(S) ==
    IF S = {} THEN <<>> ELSE <<MinOf(S)>> \o Ascending(S \ {MinOf(S)})

RECURSIVE Flatten(_)
Flatten(ss) == IF ss = <<>> THEN <<>> ELSE Head(ss) \o Flatten(Tail(ss))

LeadsOf(ids) == {id \div 256 : id \in ids}

TailsUnder(ids, lead) == {id % 256 : id \in {x \in ids : x \div 256 = lead}}

\* one 0xFF|lead header per distinct lead, leads ascending, under each the
\* tails of its own ids ascending
RefReadBlock(ids) ==
    LET leads == Ascending(LeadsOf(ids))
    IN  Flatten([g \in 1..Len(leads) |->
                    <<255, leads[g]>> \o Ascending(TailsUnder(ids, leads[g]))])

IsReadRequest(items) == \A k \in 1..Len(items) : items[k][2] = None

IsWriteRequest(items) == \A k \in 1..Len(items) : items[k][2] # None

\* C6: for every non-empty set of 16-bit ids the read-request block holds
\* exactly one 0xFF|lead header per distinct lead byte, the groups in ascending
\* lead order, each id's tail exactly once inside the group of its own lead,
\* tails ascending inside a group, whatever the order the ids were supplied in.
C6_ReadBlockGroupedAscending ==
    (bpc # "call" /\ parameters # <<>> /\ IsReadRequest(parameters))
        => data_packet = RefReadBlock(KeySet(parameters))

C6_Witness ==
    /\ bpc = "built"
    /\ Keys(parameters) = <<256, 2, 1>>
    /\ IsReadRequest(parameters)
    /\ data_packet = <<255, 0, 1, 2, 255, 1, 0>>

\* minimal byte length of a value
MinByteLen(v) == CHOOSE n \in 1..4 : v < 256 ^ n /\ (n > 1 => v >= 256 ^ (n - 1))

\* the n big-endian bytes of v
BigEndianBytes(v, n) == [k \in 1..n |-> (v \div (256 ^ (n - k))) % 256]

\* what one parameter contributes: its bare tail, or 0xFE | L | tail | bytes
RefEntry(id, val) ==
    IF val = None THEN <<id % 256>>
    ELSE <<254, MinByteLen(val[1]), id % 256>>
             \o BigEndianBytes(val[1], MinByteLen(val[1]))

RefEntries(items, ids) ==
    LET asc == Ascending(ids)
    IN  Flatten([k \in 1..Len(asc) |-> RefEntry(asc[k], Lookup(items, asc[k]))])

RefBlock(items) ==
    LET ids == KeySet(items)
        leads == Ascending(LeadsOf(ids))
    IN  Flatten([g \in 1..Len(leads) |->
                    <<255, leads[g]>>
                        \o RefEntries(items, {x \in ids : x \div 256 = leads[g]})])

RECURSIVE SumLen(_, _)
SumLen(items, k) ==
    IF k = 0 THEN 0
    ELSE SumLen(items, k - 1)
             + (IF items[k][2] = None THEN 1 ELSE 3 + MinByteLen(items[k][2][1]))

\* C7: in the outgoing block a parameter with an absent value is its bare tail
\* byte and a parameter with value v is 0xFE | L | tail | the L big-endian bytes
\* of v, L the minimal byte length of v; the block is 2 bytes per lead group
\* plus 1 per read parameter plus 3+L per write parameter long.
C7_EntryEncodingAndLength ==
    bpc # "call" =>
        /\ data_packet = RefBlock(parameters)
        /\ Len(data_packet)
               = 2 * Cardinality(LeadsOf(KeySet(parameters)))
                   + SumLen(parameters, Len(parameters))

C7_Witness ==
    /\ bpc = "built"
    /\ parameters = <<<<256, Some(300)>>, <<1, None>>, <<2, Some(7)>>>>
    /\ data_packet = <<255, 0, 1, 254, 1, 2, 7, 255, 1, 254, 2, 0, 1, 44>>

\* the mapping as a dict
AsDict(items) == [id \in KeySet(items) |-> Lookup(items, id)]

\* C8: for every write mapping of 16-bit ids to present non-negative values,
\* _decode_data of the block _construct_command_block built returns exactly
\* the original mapping; 1 and 256 of {1: 7, 256: 12} are kept apart.
C8_WriteBlockRoundTrip ==
    (bpc = "decoded" /\ IsWriteRequest(parameters))
        => (dpc = "returned" /\ values = AsDict(parameters))

C8_Witness ==
    /\ bpc = "decoded"
    /\ parameters = <<<<1, Some(7)>>, <<256, Some(12)>>>>
    /\ dpc = "returned"
    /\ values = (1 :> Some(7)) @@ (256 :> Some(12))


-----------------------------------------------------------------------------
(* Claims about the client *)

IsBulk(c) == c.name \in {"read_params", "write_params"}

\* C4: when the single receive times out, read_params and write_params return
\* normally with an empty mapping (the timeout is not propagated), and a
\* zero-length response decodes to {}.
C4_TimeoutGivesEmptyMapping ==
    (IsBulk(op) /\ (timed_out \/ (pc = "done" /\ raw_response = <<>>)))
        => /\ outcome # "raised"
           /\ pc = "done" => (outcome = "returned" /\ result = EmptyDict)

C4_Witness ==
    /\ pc = "done"
    /\ timed_out
    /\ op.name = "write_params"
    /\ outcome = "returned"
    /\ result = EmptyDict

\* C5: read_param(id) and write_param(id, value) return 0, without raising,
\* whenever the decoded response has no entry for id (the empty mapping after
\* a timeout included) or has id marked absent; otherwise they return the
\* decoded value for id.
C5_AccessorsReturnZeroWhenMissing ==
    (pc = "done" /\ op.name \in {"read_param", "write_param"} /\ dpc = "returned")
        => /\ outcome = "returned"
           /\ result = IF op.param \notin DOMAIN values THEN 0
                       ELSE IF values[op.param] = None THEN 0
                       ELSE values[op.param][1]

\* the frame's bytes from the protocol-type byte through the end of the data
\* block: all but the 2-byte header and the 2-byte checksum
CoveredBytes(frame) == SubSeq(frame, 3, Len(frame) - 2)

ChecksumBytes(frame) == SubSeq(frame, Len(frame) - 1, Len(frame))

\* C9: the last two bytes of every command are the byte-swap of
\* S = (sum of the bytes from the protocol type through the data block)
\* mod 65536, that is ((S & 0xFF) << 8) | (S >> 8) big-endian, also when the
\* plain sum is 65536 or more.
C9_CommandChecksum ==
    pc # "idle" =>
        LET S == SumBytes(CoveredBytes(command)) % 65536
        IN  ChecksumBytes(command) = <<S % 256, S \div 256>>

C9_Witness ==
    /\ pc = "connect"
    /\ SumBytes(CoveredBytes(command)) >= 65536
    /\ ChecksumBytes(command)
           = <<SumBytes(CoveredBytes(command)) % 256,
               (SumBytes(CoveredBytes(command)) \div 256) % 256>>

\* the data block of a response frame: what lies between the function byte
\* and the two checksum bytes
ResponseDataBlock(raw) ==
    SubSeq(raw, ResponsePrefixLen(id_size, pwd_size) + 1, Len(raw) - 2)

\* C10: a response whose checksum does not match is still decoded and
\* returned: what read_params / write_params give back is the decoding of the
\* response's data block whatever the two checksum bytes are, so two responses
\* that differ only in them give the same mapping, and a mismatch causes
\* neither an exception nor an empty result.
C10_ChecksumMismatchStillDecoded ==
    (pc = "done" /\ IsBulk(op) /\ raw_response # <<>>)
        => LET d == decode_data(ResponseDataBlock(raw_response))
           IN  /\ outcome = IF d.dpc = "raised" THEN "raised" ELSE "returned"
               /\ outcome = "returned" => result = d.values

C10_Witness ==
    /\ pc = "done"
    /\ op.name = "read_params"
    /\ warned
    /\ outcome = "returned"
    /\ result = (1 :> Some(7)) @@ (256 :> Some(12))


-----------------------------------------------------------------------------
(* The layout of a command frame *)

\* everything in front of the checksum: header, protocol type, the length
\* byte and the bytes of the device id, the length byte of the password and,
\* when it is not empty, its bytes, the function code, the data block
FrameFront(id, pwd, function, data) ==
    <<253, 253, 2, Len(id)>> \o id \o <<Len(pwd)>>
        \o (IF Len(pwd) > 0 THEN pwd ELSE <<>>) \o <<function>> \o data

\* C11: every command _command produces is FDFD | 02 | idLen | id | pwdLen |
\* password only when pwdLen > 0 | func | data block | checksum (2 bytes): with
\* an empty password the zero pwdLen byte is followed at once by the function
\* code and the data block, and the frame is 8 + idLen + pwdLen +
\* len(data block) bytes long.
C11_CommandLayout ==
    op # NoCall =>
        /\ Len(command) = 8 + Len(device_id) + Len(password) + Len(CallData(op))
        /\ SubSeq(command, 1, Len(command) - 2)
               = FrameFront(device_id, password, CallFunction(op), CallData(op))

\* read_param(1) of device "A" with a blank password: FD FD 02 01 41 00 01
\* FF 00 01 and the checksum 45 01
C11_Witness ==
    /\ pc = "connect"
    /\ password = <<>>
    /\ command = <<253, 253, 2, 1, 65, 0, 1, 255, 0, 1, 69, 1>>

-----------------------------------------------------------------------------
(* Two clients in two threads *)

\* what the call of thread t gives when nothing else runs: _communicate_block
\* on its own response
Alone(t) ==
    CommunicateBlock(threads[t].raw_response, Len(threads[t].device_id),
                     Len(threads[t].password))

\* C12: calls running concurrently on two independent clients do not
\* interfere: in every interleaving the checksum comparison of a call and the
\* mapping it returns are the ones its own response bytes give, whatever the
\* call on the other client wrote.
C12_InstancesDoNotInterfere ==
    \A t \in DOMAIN threads :
        threads[t].pc = "done" =>
            /\ threads[t].warned = Alone(t).warned
            /\ threads[t].result = ParamsResult(decode_data(Alone(t).data)).result

-----------------------------------------------------------------------------
(* The transport exchange of a call *)

ExchangeOrder == <<"socket", "connect", "sendall", "recv", "close">>

IsPrefix(a, b) == Len(a) <= Len(b) /\ SubSeq(b, 1, Len(a)) = a

\* the exchange of the call is over: the response is being processed or the
\* call has returned
ExchangeOver == pc \in {"process", "done"} \/ (pc = "idle" /\ op # NoCall)

\* C13: each public call performs exactly one transport exchange, in this
\* order: open a socket, connect, send the command once, attempt one receive,
\* close the socket.  The command is never sent a second time, after a timeout
\* or otherwise, and on the reply path as on the timeout path the socket is
\* closed before the call returns.
C13_OneExchangeInOrder ==
    /\ IsPrefix(events, ExchangeOrder)
    /\ nsent <= 1
    /\ timed_out => nsent = 1
    /\ ExchangeOver => events = ExchangeOrder /\ nsent = 1 /\ sock = "closed"

\* a call whose receive timed out has returned, its socket closed
C13_Witness ==
    /\ pc = "done"
    /\ timed_out
    /\ outcome = "returned"
    /\ sock = "closed"
    /\ events = ExchangeOrder

-----------------------------------------------------------------------------
(* Construction *)

\* C14: constructing a client with an empty device id fails with ValueError
\* and gives no usable client (no call is ever made on it); constructing with
\* any device id that is not empty succeeds.
C14_BlankDeviceIdRejected ==
    pc # "new" =>
        /\ device_id = <<>> => pc = "failed" /\ outcome = "raised" /\ op = NoCall
        /\ device_id # <<>> => pc # "failed" /\ id_size = Len(device_id)

\* __init__("fan.local", password="1111", device_id="") has raised
C14_Witness ==
    /\ pc = "failed"
    /\ outcome = "raised"
    /\ device_id = <<>>
    /\ password = <<49, 49, 49, 49>>

-----------------------------------------------------------------------------
(* The steps of the decode scan *)

\* the current lead byte as a number: bytes() counts as 0
LeadValue == IF lead_byte = <<>> THEN 0 ELSE lead_byte[1]

\* the kind of the entry the next loop step reads
InvalidStep == Looping /\ At(raw_data, index) = INVALID
DynamicStep == Looping /\ At(raw_data, index) = DYNAMIC_VAL
LeadStep == Looping /\ At(raw_data, index) = LEAD_INDICATOR
DefaultStep == Looping /\ At(raw_data, index) \notin {LEAD_INDICATOR, INVALID, DYNAMIC_VAL}

\* the ids of a well-formed block that occur under INVALID
RECURSIVE InvalidIds(_, _)
InvalidIds(bs, lead) ==
    IF bs = <<>> THEN {}
    ELSE IF Head(bs) = 255 THEN InvalidIds(Drop(bs, 2), bs[2])
    ELSE IF Head(bs) = 253 THEN {lead * 256 + bs[2]} \cup InvalidIds(Drop(bs, 2), lead)
    ELSE IF Head(bs) = 254 THEN InvalidIds(Drop(bs, 3 + bs[2]), lead)
    ELSE InvalidIds(Drop(bs, 2), lead)

\* the ids of a well-formed block that occur in an entry carrying a value
RECURSIVE ValueIds(_, _)
ValueIds(bs, lead) ==
    IF bs = <<>> THEN {}
    ELSE IF Head(bs) = 255 THEN ValueIds(Drop(bs, 2), bs[2])
    ELSE IF Head(bs) = 253 THEN ValueIds(Drop(bs, 2), lead)
    ELSE IF Head(bs) = 254
         THEN {lead * 256 + bs[3]} \cup ValueIds(Drop(bs, 3 + bs[2]), lead)
    ELSE {lead * 256 + bs[1]} \cup ValueIds(Drop(bs, 2), lead)

\* an INVALID step keeps every entry of the result; a default or DYNAMIC_VAL
\* step that records puts its value under its id, recorded before or not
C15_Steps ==
    /\ InvalidStep =>
           \A id \in DOMAIN values : id \in DOMAIN values' /\ values'[id] = values[id]
    /\ (DefaultStep /\ dpc' = "loop") =>
           LET id == LeadValue * 256 + At(raw_data, index)
           IN  id \in DOMAIN values' /\ values'[id] = Some(At(raw_data, index + 1))
    /\ (DynamicStep /\ dpc' = "loop") =>
           LET id == LeadValue * 256 + At(raw_data, index + 2)
           IN  id \in DOMAIN values' /\ values'[id] # None

\* the ids absent in the result of a well-formed block
C15_Result ==
    (dpc = "returned" /\ WellFormedBlock(raw_data)) =>
        /\ DOMAIN values = InvalidIds(raw_data, 0) \cup ValueIds(raw_data, 0)
        /\ {id \in DOMAIN values : values[id] = None}
               = InvalidIds(raw_data, 0) \ ValueIds(raw_data, 0)

\* C15: an INVALID (0xFD) entry never replaces an entry already in the result:
\* once an id is recorded, with a value or as absent, a later INVALID entry
\* for it leaves the mapping unchanged, while a later default or DYNAMIC_VAL
\* entry for it overwrites it.  So in the result of a well-formed block an id
\* is absent exactly when it occurred under INVALID and no value-carrying
\* entry for it occurred anywhere in the block.
C15_InvalidNeverReplaces == [][C15_Steps]_vars /\ []C15_Result

\* 01 02 FD 01: the value 2 of id 1 is still there after the INVALID entry
C15_Witness ==
    /\ raw_data = <<1, 2, 253, 1>>
    /\ dpc = "returned"
    /\ values = (1 :> Some(2))

\* the lead byte in force at index target of raw: the byte of the last
\* LEAD_INDICATOR entry among the entries in front of it, 0 without one
RECURSIVE LeadInForce(_, _, _, _)
LeadInForce(raw, i, target, lead) ==
    IF i >= target THEN lead
    ELSE IF At(raw, i) = 255 THEN LeadInForce(raw, i + 2, target, At(raw, i + 1))
    ELSE IF At(raw, i) = 254
         THEN LeadInForce(raw, i + 3 + At(raw, i + 1), target, lead)
    ELSE LeadInForce(raw, i + 2, target, lead)

\* the ids a step records: those new in the result or mapped to something else
Recorded == {id \in DOMAIN values' : id \notin DOMAIN values \/ values'[id] # values[id]}

C16_Steps ==
    /\ ~LeadStep => lead_byte' = lead_byte
    /\ LeadStep => values' = values
    /\ \A id \in Recorded : id \div 256 = LeadInForce(raw_data, 0, index, 0)

\* C16: during decoding the current lead byte is changed only by a
\* LEAD_INDICATOR (0xFF) step: every INVALID, DYNAMIC_VAL and default step
\* leaves it unchanged, a LEAD_INDICATOR step leaves the result mapping
\* unchanged, and every id a step records has as its high byte the lead byte
\* set by the most recent LEAD_INDICATOR before it (0x00 if there was none).
C16_LeadByteOnlyByLeadIndicator == [][C16_Steps]_vars

\* FF 01 | 00 02 | FD 01 | FE 01 02 07: the three entries after the lead
\* indicator are all recorded under the lead byte 1
C16_Witness ==
    /\ raw_data = ScenarioLead
    /\ dpc = "returned"
    /\ lead_byte = <<1>>
    /\ values = (256 :> Some(2)) @@ (257 :> None) @@ (258 :> Some(7))

\* a loop step returns or moves the read index at least 2 further, and no
\* step moves it back
C18_Steps ==
    /\ Looping => (dpc' = "returned" \/ index' >= index + 2)
    /\ index' >= index

\* C18: the decode scan always terminates: every loop step of _decode_data
\* either returns or advances the read index by at least 2 and the index never
\* decreases, so a buffer of n bytes is processed in at most ceil(n/2) steps
\* and the result has at most ceil(n/2) entries.
C18_DecodeScanAdvances ==
    /\ [][C18_Steps]_vars
    /\ [](2 * Cardinality(DOMAIN values) <= Len(raw_data) + 1)

-----------------------------------------------------------------------------
(* Calls do not depend on earlier calls *)

\* the command and the outcome of a call as functions of the client's
\* configuration, the call and its arguments, and the response received
CommandOf(c) ==
    PacketToBytes(Command(device_id, password, id_size, pwd_size, CallFunction(c),
                          CallData(c)))

OutcomeOf(c, response) ==
    CallResult(c, decode_data(CommunicateBlock(response, id_size, pwd_size).data))

\* C17: the outcome of a call depends only on the client's configuration, the
\* call's arguments and the response bytes received in that call, not on
\* earlier calls on the same or another instance: no step of any sequence of
\* calls changes host, port, password, device id, their length fields or the
\* timeout, the command of a call is the one its configuration and arguments
\* give, and what the call returns (or that it raises) is what its
\* configuration, arguments and response give, whatever calls came before and
\* whatever they left in CHECKSUM.
C17_CallsDependOnlyOnInputs ==
    /\ [][UNCHANGED configVars]_vars
    /\ [](op # NoCall => command = CommandOf(op))
    /\ [](ExchangeOver /\ pc # "process" =>
             /\ result = OutcomeOf(op, raw_response).result
             /\ outcome = OutcomeOf(op, raw_response).outcome)

\* read_params([1]) has timed out and returned {} on a client whose earlier
\* exchange left its checksum in CHECKSUM
C17_Witness ==
    /\ pc = "done"
    /\ op = ReadParams(<<1>>)
    /\ timed_out
    /\ CHECKSUM \notin ChecksumSamples
    /\ result = EmptyDict
    /\ command = CommandOf(op)

=============================================================================
